---------------------------- MODULE Spec2Model ----------------------------
(***************************************************************************)
(* Flow-field tiles: the integration-field wavefront solver                *)
(* (src/src/flowfields/integration_fields.rs), the sector maps and sector  *)
(* neighbour queries (src/src/flowfields/sectors.rs) and the per-sector    *)
(* orchestration of a route (src/examples/visualise_integration_fields.rs).*)
(***************************************************************************)
EXTENDS Integers, Sequences, FiniteSets, TLC

(***************************************************************************)
(* Program constants                                                       *)
(***************************************************************************)
FIELD_RESOLUTION == 10

SECTOR_RESOLUTION == 10

\* u16::MAX, the value of a cell the wavefront has not written
U16_MAX == 65535

\* the CostFields value marking an impassable cell
IMPASSABLE == 255

(***************************************************************************)
(* Bounds of the model                                                     *)
(***************************************************************************)
\* number of cells of PatchOrder whose cost is chosen freely
PatchLen == 6

\* the expensive (but passable) cost a freely chosen cell may take
HighCost == 5

(***************************************************************************)
(* Grid cells, (column, row)                                               *)
(***************************************************************************)
Index == 0 .. (FIELD_RESOLUTION - 1)

Cells == Index \X Index

\* Ordinal::get_cell_neighbours: North, East, South, West of a cell, the
\* ones outside the grid left out, in that order
get_cell_neighbours(cell) ==
    LET col == cell[1]
        row == cell[2]
        north == IF row > 0 THEN << <<col, row - 1>> >> ELSE << >>
        east  == IF col + 1 < FIELD_RESOLUTION THEN << <<col + 1, row>> >> ELSE << >>
        south == IF row + 1 < FIELD_RESOLUTION THEN << <<col, row + 1>> >> ELSE << >>
        west  == IF col > 0 THEN << <<col - 1, row>> >> ELSE << >>
    IN  north \o east \o south \o west

\* CostFields::default(): every cell costs 1
DefaultCostFields == [c \in Cells |-> 1]

\* IntegrationFields::default(): every cell u16::MAX
DefaultIntegrationFields == [c \in Cells |-> U16_MAX]

\* a reset that only writes the source cell
ResetFieldKeepsCells(f, source) == [f EXCEPT ![source] = 0]

\* IntegrationFields::reset: every cell of the field is set to u16::MAX, then
\* the source cell to 0
ResetField(f, source) ==
    LET cleared == [c \in DOMAIN f |-> U16_MAX]
    IN  [cleared EXCEPT ![source] = 0]

\* the addition done in 12 bits
AddU12(a, b) == (a + b) % 4096

\* the addition done in the 8 bits of the cost, without `as u16`
AddU8(a, b) == (a + b) % 256

\* `cell_cost as u16 + prev_int_cost` in 16 bits
AddU16(a, b) == (a + b) % 65536

\* a comparison that lets every candidate through that differs from the cell
IsBetterNotEqual(int_cost, current) == int_cost # current

\* a comparison that also lets an equal candidate through
IsBetterOrEqual(int_cost, current) == int_cost <= current

\* a comparison that lets a cell be written once, by the pass that reaches it
IsBetterUnreached(int_cost, current) == current = 65535

\* a comparison that lets only the first writer of a cell through
IsBetterFirstWriter(int_cost, current) == int_cost < current /\ current = 65535

\* `int_cost < int_fields.get_grid_value(n)`: the strict comparison that
\* decides whether a neighbour is written and queued
IsBetter(int_cost, current) == int_cost < current

\* the loop without its `cell_cost != 255` test
RECURSIVE RelaxNeighboursNoWallCheck(_, _, _, _, _)
RelaxNeighboursNoWallCheck(f, q, ns, prev, cost) ==
    IF ns = << >> THEN [f |-> f, q |-> q]
    ELSE LET n == Head(ns)
             int_cost == (cost[n] + prev) % 65536
         IN  IF int_cost < f[n]
             THEN RelaxNeighboursNoWallCheck([f EXCEPT ![n] = int_cost],
                                  Append(q, <<n, int_cost>>), Tail(ns), prev, cost)
             ELSE RelaxNeighboursNoWallCheck(f, q, Tail(ns), prev, cost)

\* The loop over the neighbours of one cell (lines 100-111 and 125-136):
\* ns are the neighbours left to examine, prev the integration cost carried
\* for the cell, f the field so far and q the entries pushed so far.
RECURSIVE RelaxNeighbours(_, _, _, _, _)
RelaxNeighbours(f, q, ns, prev, cost) ==
    IF ns = << >> THEN [f |-> f, q |-> q]
    ELSE LET n == Head(ns)
             cell_cost == cost[n]
             int_cost == AddU16(cell_cost, prev)
         IN  IF cell_cost # IMPASSABLE /\ IsBetter(int_cost, f[n])
             THEN RelaxNeighbours([f EXCEPT ![n] = int_cost],
                                  Append(q, <<n, int_cost>>), Tail(ns), prev, cost)
             ELSE RelaxNeighbours(f, q, Tail(ns), prev, cost)

\* the first part without its `current_cell_cost_field != 255` test
InitialPassNoSourceCheck(f, source, cost) ==
    RelaxNeighbours(f, << >>, get_cell_neighbours(source), f[source], cost)

\* the first part carrying the source's own cost instead of its field value
InitialPassAddsSourceCost(f, source, cost) ==
    IF cost[source] # IMPASSABLE
    THEN RelaxNeighbours(f, << >>, get_cell_neighbours(source), cost[source], cost)
    ELSE [f |-> f, q |-> << >>]

\* The first part of calculate_fields (lines 92-112): the queue built from
\* the source's neighbours
InitialPass(f, source, cost) ==
    IF cost[source] # IMPASSABLE
    THEN RelaxNeighbours(f, << >>, get_cell_neighbours(source), f[source], cost)
    ELSE [f |-> f, q |-> << >>]

(***************************************************************************)
(* Cost fields given to the solver                                         *)
(***************************************************************************)
\* cost_fields.set_grid_value(255, ..) calls of tests::complex_field
ComplexWalls ==
    { <<5, 6>>, <<5, 7>>, <<6, 9>>, <<6, 8>>, <<6, 7>>, <<6, 4>>, <<7, 9>>,
      <<7, 4>>, <<8, 4>>, <<9, 4>>, <<1, 2>>, <<1, 1>>, <<2, 1>>, <<2, 2>> }

ComplexCostFields == [c \in Cells |-> IF c \in ComplexWalls THEN IMPASSABLE ELSE 1]

\* `actual` of tests::basic_field, actual[column][row]
BasicFieldExpected ==
    << <<8,7,6,5,4,5,6,7,8,9>>, <<7,6,5,4,3,4,5,6,7,8>>, <<6,5,4,3,2,3,4,5,6,7>>,
       <<5,4,3,2,1,2,3,4,5,6>>, <<4,3,2,1,0,1,2,3,4,5>>, <<5,4,3,2,1,2,3,4,5,6>>,
       <<6,5,4,3,2,3,4,5,6,7>>, <<7,6,5,4,3,4,5,6,7,8>>, <<8,7,6,5,4,5,6,7,8,9>>,
       <<9,8,7,6,5,6,7,8,9,10>> >>

\* `actual` of tests::complex_field, actual[column][row]
ComplexFieldExpected ==
    << <<8,7,6,5,4,5,6,7,8,9>>, <<7,65535,65535,4,3,4,5,6,7,8>>,
       <<6,65535,65535,3,2,3,4,5,6,7>>, <<5,4,3,2,1,2,3,4,5,6>>,
       <<4,3,2,1,0,1,2,3,4,5>>, <<5,4,3,2,1,2,65535,65535,5,6>>,
       <<6,5,4,3,65535,3,4,65535,65535,65535>>, <<7,6,5,4,65535,4,5,6,7,65535>>,
       <<8,7,6,5,65535,5,6,7,8,9>>, <<9,8,7,6,65535,6,7,8,9,10>> >>

UniformCosts == {1, 2, 254}

UniformCostFields == { [c \in Cells |-> k] : k \in UniformCosts }

\* cost fields examined from every source cell
ScenarioCostFields == UniformCostFields \cup {ComplexCostFields}

\* the cells whose cost is chosen freely, in the order they are added
PatchOrder ==
    << <<4, 5>>, <<5, 4>>, <<5, 5>>, <<3, 4>>, <<1, 0>>, <<0, 1>>, <<4, 3>>, <<6, 5>> >>

PatchCells == { PatchOrder[i] : i \in 1 .. PatchLen }

PatchCosts == {1, HighCost, IMPASSABLE}

PatchCostFields ==
    { [c \in Cells |-> IF c \in PatchCells THEN p[c] ELSE 1] :
        p \in [PatchCells -> PatchCosts] }

PatchSources == { <<4, 4>>, <<0, 0>>, <<5, 4>> }

CostFieldInputs == ScenarioCostFields \cup PatchCostFields

\* a room of 3 x 3 cells around (4,4), walled in
RoomCells == (3 .. 5) \X (3 .. 5)

\* cost fields of the room with free and equal costs: two adjacent cells
\* that may cost nothing, two cells that may be walls
RoomCostFields ==
    { [c \in Cells |->
          IF c \notin RoomCells THEN IMPASSABLE
          ELSE IF c = <<4, 5>> THEN k[1]
          ELSE IF c = <<5, 5>> THEN k[2]
          ELSE IF c = <<5, 4>> THEN k[3]
          ELSE IF c = <<3, 4>> THEN k[4]
          ELSE 1] :
        k \in {0, 1, HighCost} \X {0, 1, HighCost}
                \X {1, HighCost, IMPASSABLE} \X {1, HighCost, IMPASSABLE} }

SourcesFor(cost) == IF cost \in ScenarioCostFields THEN Cells ELSE PatchSources

(***************************************************************************)
(* The solver run to completion                                            *)
(***************************************************************************)
\* `for (cell, prev_int_cost) in queue.iter()` (lines 122-137) from entry i
\* on: the field and the next_neighbours after the last entry.  An entry
\* only ever pushes onto next_neighbours; the test on the lengths has the
\* entry computed before the next one is started.
RECURSIVE IterateQueue(_, _, _, _, _)
IterateQueue(f, q, i, next, cost) ==
    IF i > Len(q) THEN [f |-> f, q |-> next]
    ELSE LET r == RelaxNeighbours(f, next, get_cell_neighbours(q[i][1]), q[i][2], cost)
         IN  IF Len(r.q) >= Len(next)
             THEN IterateQueue(r.f, q, i + 1, r.q, cost)
             ELSE r

\* process_neighbours (lines 115-141): one pass, then the recursion on the
\* next pass unless it is empty
RECURSIVE process_neighbours(_, _, _)
process_neighbours(f, q, cost) ==
    LET r == IterateQueue(f, q, 1, << >>, cost)
    IN  IF Len(r.q) # 0 THEN process_neighbours(r.f, r.q, cost) ELSE r.f

\* calculate_fields (lines 90-142) on the field f
calculate_fields(f, source, cost) ==
    LET r == InitialPass(f, source, cost)
    IN  process_neighbours(r.f, r.q, cost)

(***************************************************************************)
(* Sector maps                                                             *)
(***************************************************************************)
\* bound of the map dimensions tried
MaxDim == 30

\* bound of the depth of the process_neighbours recursion that is counted
MaxPass == 40

EmptyMap == [k \in {} |-> 0]

\* BTreeMap::insert
Insert(map, key, value) ==
    [k \in (DOMAIN map) \cup {key} |-> IF k = key THEN value ELSE map[k]]

\* `for m in 0..column_count { for n in 0..row_count { map.insert((m, n), default) } }`
RECURSIVE InsertSectors(_, _, _, _, _, _)
InsertSectors(map, m, n, column_count, row_count, default) ==
    IF m >= column_count THEN map
    ELSE IF n >= row_count
         THEN InsertSectors(map, m + 1, 0, column_count, row_count, default)
         ELSE InsertSectors(Insert(map, <<m, n>>, default), m, n + 1,
                            column_count, row_count, default)

\* Portals::default()
DefaultPortals == "Portals::default"

\* a constructor that rounds the sector counts up
SectorCostFields_new_RoundsUp(map_x_dimension, map_z_dimension) ==
    InsertSectors(EmptyMap, 0, 0,
                  (map_x_dimension + SECTOR_RESOLUTION - 1) \div SECTOR_RESOLUTION,
                  (map_z_dimension + SECTOR_RESOLUTION - 1) \div SECTOR_RESOLUTION,
                  DefaultCostFields)

\* SectorCostFields::new
SectorCostFields_new(map_x_dimension, map_z_dimension) ==
    LET column_count == map_x_dimension \div SECTOR_RESOLUTION
        row_count == map_z_dimension \div SECTOR_RESOLUTION
    IN  InsertSectors(EmptyMap, 0, 0, column_count, row_count, DefaultCostFields)

\* SectorPortals::new
SectorPortals_new(map_x_dimension, map_z_dimension) ==
    LET column_count == map_x_dimension \div SECTOR_RESOLUTION
        row_count == map_z_dimension \div SECTOR_RESOLUTION
    IN  InsertSectors(EmptyMap, 0, 0, column_count, row_count, DefaultPortals)

\* a constructor that takes the column count from z and the row count from x
SectorIntegrationFields_new_Swapped(map_x_dimension, map_z_dimension) ==
    InsertSectors(EmptyMap, 0, 0, map_z_dimension \div SECTOR_RESOLUTION,
                  map_x_dimension \div SECTOR_RESOLUTION, DefaultIntegrationFields)

\* SectorIntegrationFields::new
SectorIntegrationFields_new(map_x_dimension, map_z_dimension) ==
    LET column_count == map_x_dimension \div SECTOR_RESOLUTION
        row_count == map_z_dimension \div SECTOR_RESOLUTION
    IN  InsertSectors(EmptyMap, 0, 0, column_count, row_count, DefaultIntegrationFields)

\* Ordinal::get_sector_neighbours_with_ordinal: North, East, South, West of
\* a sector, the ones outside the sector grid left out, in that order
Ordinal_get_sector_neighbours_with_ordinal(sector_id, map_x_dimension, map_z_dimension) ==
    LET col == sector_id[1]
        row == sector_id[2]
        column_count == map_x_dimension \div SECTOR_RESOLUTION
        row_count == map_z_dimension \div SECTOR_RESOLUTION
        north == IF row > 0 THEN << <<"North", <<col, row - 1>>>> >> ELSE << >>
        east  == IF col + 1 < column_count THEN << <<"East", <<col + 1, row>>>> >> ELSE << >>
        south == IF row + 1 < row_count THEN << <<"South", <<col, row + 1>>>> >> ELSE << >>
        west  == IF col > 0 THEN << <<"West", <<col - 1, row>>>> >> ELSE << >>
    IN  north \o east \o south \o west

\* Ordinal::get_sector_neighbours: the same sectors without the direction
Ordinal_get_sector_neighbours(sector_id, map_x_dimension, map_z_dimension) ==
    LET w == Ordinal_get_sector_neighbours_with_ordinal(sector_id, map_x_dimension,
                                                         map_z_dimension)
    IN  [i \in 1 .. Len(w) |-> w[i][2]]

\* the query with the two map dimensions passed in the wrong order
get_ids_of_neighbouring_sectors_Swapped(sector_id, map_x_dimension, map_z_dimension) ==
    Ordinal_get_sector_neighbours(sector_id, map_z_dimension, map_x_dimension)

get_ids_of_neighbouring_sectors(sector_id, map_x_dimension, map_z_dimension) ==
    Ordinal_get_sector_neighbours(sector_id, map_x_dimension, map_z_dimension)

get_ordinal_and_ids_of_neighbouring_sectors(sector_id, map_x_dimension, map_z_dimension) ==
    Ordinal_get_sector_neighbours_with_ordinal(sector_id, map_x_dimension, map_z_dimension)

(***************************************************************************)
(* Coordinate mapping.  A Vec3 is <<x, y, z>> with every coordinate        *)
(* counted in halves of a world unit, so that the 0.5 of the cell offsets   *)
(* and the floor() of the lookups are computed exactly.                     *)
(***************************************************************************)
\* how many of the model's position steps make one world unit (the `0.5`)
HalvesPerUnit == 2

\* how far outside the map, in world units, the positions tried reach
Outside == 2

\* `n as f32` for an integer n
AsF32(n) == n * HalvesPerUnit

\* `(v / d as f32).floor()` for an integer d > 0, and `v.floor()` for d = 1
FloorDiv(v, d) == v \div (d * HalvesPerUnit)

\* `as u32` / `as usize` of a float that holds an integer: a negative value
\* saturates to 0
AsUnsigned(n) == IF n < 0 THEN 0 ELSE n

\* the top-left corner with the two map dimensions exchanged
get_xyz_at_sector_top_left_from_sector_id_Swapped(id, mx, mz) ==
    << AsF32(id[1] * SECTOR_RESOLUTION - (mz \div 2)), 0,
       AsF32(id[2] * SECTOR_RESOLUTION - (mx \div 2)) >>

\* get_xyz_at_sector_top_left_from_sector_id (lines 297-305)
get_xyz_at_sector_top_left_from_sector_id(id, mx, mz) ==
    LET x == AsF32(id[1] * SECTOR_RESOLUTION - (mx \div 2))
        z == AsF32(id[2] * SECTOR_RESOLUTION - (mz \div 2))
    IN  <<x, 0, z>>

\* get_xyz_sector_centre_from_sector_id (lines 307-317)
get_xyz_sector_centre_from_sector_id(id, mx, mz) ==
    LET x == AsF32(id[1] * SECTOR_RESOLUTION - (mx \div 2))
                 + AsF32(SECTOR_RESOLUTION \div 2)
        z == AsF32(id[2] * SECTOR_RESOLUTION - (mz \div 2))
                 + AsF32(SECTOR_RESOLUTION \div 2)
    IN  <<x, 0, z>>

\* get_xyz_from_field_cell_within_sector (lines 319-331):
\* `(field_id + 1) as f32 * 0.5` is (field_id + 1) halves
get_xyz_from_field_cell_within_sector(id, field_id, mx, mz) ==
    LET sector_xyz == get_xyz_at_sector_top_left_from_sector_id(id, mx, mz)
        x_offset == AsF32(field_id[1] + 1) \div 2
        z_offset == AsF32(field_id[2] + 1) \div 2
    IN  <<sector_xyz[1] + x_offset, 0, sector_xyz[3] + z_offset>>

\* the lookup without `if column >= x_sector_count` and `if row >= ..`
get_sector_id_from_xyz_NoClamp(position, mx, mz) ==
    << AsUnsigned(FloorDiv(position[1] + AsF32(mx \div 2), SECTOR_RESOLUTION)),
       AsUnsigned(FloorDiv(position[3] + AsF32(mz \div 2), SECTOR_RESOLUTION)) >>

\* get_sector_id_from_xyz (lines 240-265), for a map of at least one sector
\* in each direction (x_sector_count - 1 does not underflow)
get_sector_id_from_xyz(position, mx, mz) ==
    LET x_sector_count == mx \div SECTOR_RESOLUTION
        z_sector_count == mz \div SECTOR_RESOLUTION
        x_origin == position[1] + AsF32(mx \div 2)
        z_origin == position[3] + AsF32(mz \div 2)
        column == AsUnsigned(FloorDiv(x_origin, SECTOR_RESOLUTION))
        row == AsUnsigned(FloorDiv(z_origin, SECTOR_RESOLUTION))
    IN  << IF column >= x_sector_count THEN x_sector_count - 1 ELSE column,
           IF row >= z_sector_count THEN z_sector_count - 1 ELSE row >>

\* the lookup without `.abs()`
get_field_cell_from_xyz_NoAbs(position, id, mx, mz) ==
    LET origin_of_sector == get_xyz_at_sector_top_left_from_sector_id(id, mx, mz)
        column == AsUnsigned(FloorDiv(origin_of_sector[1] - position[1], 1))
        row == AsUnsigned(FloorDiv(origin_of_sector[3] - position[3], 1))
    IN  << IF column >= FIELD_RESOLUTION THEN FIELD_RESOLUTION - 1 ELSE column,
           IF row >= FIELD_RESOLUTION THEN FIELD_RESOLUTION - 1 ELSE row >>

\* get_field_cell_from_xyz (lines 266-285)
get_field_cell_from_xyz(position, id, mx, mz) ==
    LET origin_of_sector == get_xyz_at_sector_top_left_from_sector_id(id, mx, mz)
        dx == origin_of_sector[1] - position[1]
        dz == origin_of_sector[3] - position[3]
        column == AsUnsigned(FloorDiv(IF dx < 0 THEN -dx ELSE dx, 1))
        row == AsUnsigned(FloorDiv(IF dz < 0 THEN -dz ELSE dz, 1))
    IN  << IF column >= FIELD_RESOLUTION THEN FIELD_RESOLUTION - 1 ELSE column,
           IF row >= FIELD_RESOLUTION THEN FIELD_RESOLUTION - 1 ELSE row >>

\* get_sector_and_field_cell_from_xyz (lines 287-295)
get_sector_and_field_cell_from_xyz(position, mx, mz) ==
    LET id == get_sector_id_from_xyz(position, mx, mz)
        field_cell == get_field_cell_from_xyz(position, id, mx, mz)
    IN  <<id, field_cell>>

\* the map dimensions tried for the lookups: at least one sector each way,
\* multiples of 10 and, for the integer halving, multiples of 5
CoordDims == { d \in SECTOR_RESOLUTION .. MaxDim : d % 5 = 0 }

\* the coordinates tried along one axis of a map of dimension d: every half
\* unit from Outside units before the map to Outside units after it
AxisPositions(d) ==
    (-(AsF32(d \div 2 + Outside))) .. AsF32(d - (d \div 2) + Outside)

(***************************************************************************)
(* The route of the example and its per-sector goals                       *)
(***************************************************************************)
\* longest route tried
MaxRouteLen == 4

\* MapDimensions::new(30, 30) of the example
ExampleMapDimension == 30

\* the sectors a route may visit, and the cells it may name in each
RouteSectors == { <<2, 0>>, <<1, 0>>, <<0, 2>> }

RoutePairs ==
    ({ <<2, 0>> } \X { <<7, 3>>, <<0, 6>>, <<9, 9>> })
        \cup ({ <<1, 0>> } \X { <<4, 4>> })
        \cup ({ <<0, 2>> } \X { <<0, 6>> })

RouteInputs == UNION { [1 .. n -> RoutePairs] : n \in 0 .. MaxRouteLen }

\* the cost fields of the 3 x 3 sectors: the default ones, the complex field
\* in sector (1,0), walls and an expensive cell in sector (0,2)
ExampleSectorCostFields ==
    LET m == SectorCostFields_new(ExampleMapDimension, ExampleMapDimension)
    IN  [m EXCEPT ![<<1, 0>>] = ComplexCostFields,
                  ![<<0, 2>>] = [c \in Cells |->
                                    IF c \in { <<0, 5>>, <<1, 6>>, <<9, 8>> } THEN IMPASSABLE
                                    ELSE IF c = <<0, 7>> THEN HighCost ELSE 1]]

\* path.reverse()
Reverse(path) == [i \in 1 .. Len(path) |-> path[Len(path) + 1 - i]]

\* the loop without `if !map.contains_key(&p.0)`: a later pair replaces the goal
RECURSIVE CollapseOverwrites(_, _)
CollapseOverwrites(path, map) ==
    IF path = << >> THEN map
    ELSE CollapseOverwrites(Tail(path), Insert(map, Head(path)[1], Head(path)[2]))

\* `for p in path.iter() { if !map.contains_key(&p.0) { map.insert(p.0, p.1); } }`
RECURSIVE Collapse(_, _)
Collapse(path, map) ==
    IF path = << >> THEN map
    ELSE LET p == Head(path)
         IN  IF p[1] \notin DOMAIN map
             THEN Collapse(Tail(path), Insert(map, p[1], p[2]))
             ELSE Collapse(Tail(path), map)

\* IntegrationField::new(goal) followed by calculate_field(goal, cost_field)
IntegrationFieldOf(goal, cost_field) ==
    calculate_fields(ResetField(DefaultIntegrationFields, goal), goal, cost_field)

(***************************************************************************)
(* State                                                                   *)
(***************************************************************************)
VARIABLES
    cost_fields,      \* the CostFields of the sector
    field,            \* IntegrationFields.0
    source,           \* the source of the last reset / calculate_fields
    queue,            \* process_neighbours: the pass being iterated
    idx,              \* position of the iteration in queue
    next_neighbours,  \* process_neighbours: the pass being built
    pass,             \* depth of the process_neighbours recursion
    pc,               \* "fresh", "reset", "pass", "done" or "panicked"
    prior,            \* what the field held when reset (or, in the runs on a
                      \* field as it is, calculate_fields) was called
    map_x_dimension,  \* the map dimensions given to the constructors
    map_z_dimension,
    built,            \* which of the sector maps have been constructed
    sector_cost_fields,          \* SectorCostFields.0
    sector_portals,              \* SectorPortals.0
    sector_integration_fields,   \* SectorIntegrationFields.0
    sector_id,        \* the sector last asked for its neighbours
    neighbour_ids,    \* result of get_ids_of_neighbouring_sectors
    neighbour_ordinals,  \* result of get_ordinal_and_ids_of_neighbouring_sectors
    route,            \* the (sector, cell) pairs from source to goal
    map,              \* setup: the goal cell kept for each sector
    sector_int_fields,   \* setup: the IntegrationField of each sector
    rpc,              \* setup: "route", "collapsed"
    order,            \* setup: the sectors in the order map.iter() gave them
    position,         \* the Vec3 last looked up
    located,          \* result of get_sector_and_field_cell_from_xyz(position)
    round_trip,       \* whether position is the cell_xyz of a cell
    cell_sector,      \* the sector and field cell last asked for their xyz
    field_id,
    cell_xyz          \* result of get_xyz_from_field_cell_within_sector

fieldVars == <<cost_fields, field, source, queue, idx, next_neighbours, pass, pc, prior>>

sectorVars == <<map_x_dimension, map_z_dimension, built, sector_cost_fields,
                sector_portals, sector_integration_fields, sector_id,
                neighbour_ids, neighbour_ordinals>>

routeVars == <<route, map, sector_int_fields, rpc, order>>

coordVars == <<position, located, round_trip, cell_sector, field_id, cell_xyz>>

vars == <<fieldVars, sectorVars, routeVars, coordVars>>

NoCell == <<FIELD_RESOLUTION, FIELD_RESOLUTION>>

NoSector == <<MaxDim, MaxDim>>

\* the solver before any call
FieldIdle ==
    /\ field = DefaultIntegrationFields
    /\ source = NoCell
    /\ queue = << >>
    /\ idx = 1
    /\ next_neighbours = << >>
    /\ pass = 0
    /\ pc = "fresh"
    /\ prior = "none"

\* no sector map constructed, no sector asked for
SectorsIdle ==
    /\ built = {}
    /\ sector_cost_fields = EmptyMap
    /\ sector_portals = EmptyMap
    /\ sector_integration_fields = EmptyMap
    /\ sector_id = NoSector
    /\ neighbour_ids = << >>
    /\ neighbour_ordinals = << >>

RouteIdle ==
    /\ route = << >>
    /\ map = EmptyMap
    /\ sector_int_fields = EmptyMap
    /\ rpc = "idle"
    /\ order = << >>

NoPosition == << >>

\* no position looked up, no cell asked for
CoordsIdle ==
    /\ position = NoPosition
    /\ located = << >>
    /\ round_trip = FALSE
    /\ cell_sector = NoSector
    /\ field_id = NoCell
    /\ cell_xyz = NoPosition

(***************************************************************************)
(* The wavefront solver, one queue entry at a time                         *)
(***************************************************************************)
Init ==
    /\ cost_fields \in CostFieldInputs
    /\ FieldIdle
    /\ map_x_dimension = 0
    /\ map_z_dimension = 0
    /\ SectorsIdle
    /\ RouteIdle
    /\ CoordsIdle

\* integration_field.reset(s)
Reset(s) ==
    /\ pc \in {"fresh", "reset", "done"}
    /\ field' = ResetField(field, s)
    /\ source' = s
    /\ prior' = pc
    /\ pc' = "reset"
    /\ UNCHANGED <<cost_fields, queue, idx, next_neighbours, pass>>
    /\ UNCHANGED <<sectorVars, routeVars, coordVars>>

\* calculate_fields(source, cost_fields) up to its call of process_neighbours
CalculateFields ==
    /\ pc = "reset"
    /\ LET r == InitialPass(field, source, cost_fields)
       IN  /\ field' = r.f
           /\ queue' = r.q
    /\ idx' = 1
    /\ next_neighbours' = << >>
    /\ pass' = 1
    /\ pc' = "pass"
    /\ prior' = "none"
    /\ UNCHANGED <<cost_fields, source>>
    /\ UNCHANGED <<sectorVars, routeVars, coordVars>>

\* one iteration of `for (cell, prev_int_cost) in queue.iter()`
ProcessEntry ==
    /\ pc = "pass"
    /\ idx <= Len(queue)
    /\ LET r == RelaxNeighbours(field, next_neighbours,
                                get_cell_neighbours(queue[idx][1]),
                                queue[idx][2], cost_fields)
       IN  /\ field' = r.f
           /\ next_neighbours' = r.q
    /\ idx' = idx + 1
    /\ UNCHANGED <<cost_fields, source, queue, pass, pc, prior>>
    /\ UNCHANGED <<sectorVars, routeVars, coordVars>>

\* `if next_neighbours.len() != 0`: the recursive call
NextPass ==
    /\ pc = "pass"
    /\ idx > Len(queue)
    /\ next_neighbours # << >>
    /\ queue' = next_neighbours
    /\ idx' = 1
    /\ next_neighbours' = << >>
    /\ pass' = IF pass < MaxPass THEN pass + 1 ELSE pass
    /\ UNCHANGED <<cost_fields, field, source, pc, prior>>
    /\ UNCHANGED <<sectorVars, routeVars, coordVars>>

\* the pass that pushed nothing: process_neighbours returns through every
\* level of the recursion and calculate_fields returns, dropping its locals
Finish ==
    /\ pc = "pass"
    /\ idx > Len(queue)
    /\ next_neighbours = << >>
    /\ pc' = "done"
    /\ queue' = << >>
    /\ idx' = 1
    /\ pass' = 0
    /\ UNCHANGED <<cost_fields, field, source, next_neighbours, prior>>
    /\ UNCHANGED <<sectorVars, routeVars, coordVars>>

Next ==
    \/ \E s \in SourcesFor(cost_fields) : Reset(s)
    \/ CalculateFields
    \/ ProcessEntry
    \/ NextPass
    \/ Finish

Spec == Init /\ [][Next]_vars

(***************************************************************************)
(* calculate_fields called on a field as it is: constructed and never      *)
(* reset, reset for the source of the call, or reset for another cell.     *)
(***************************************************************************)
InitAnyField ==
    /\ cost_fields \in RoomCostFields
    /\ FieldIdle
    /\ map_x_dimension = 0
    /\ map_z_dimension = 0
    /\ SectorsIdle
    /\ RouteIdle
    /\ CoordsIdle

\* `cell_cost as u16 + current_int_value` (line 105) exceeds u16::MAX for
\* some neighbour of s that is examined
FirstPassOverflows(f, s, cost) ==
    /\ cost[s] # IMPASSABLE
    /\ \E i \in 1 .. Len(get_cell_neighbours(s)) :
          LET n == get_cell_neighbours(s)[i]
          IN  cost[n] # IMPASSABLE /\ cost[n] + f[s] > U16_MAX

\* calculate_fields(s, cost_fields) up to its call of process_neighbours,
\* the additions wrapping round in 16 bits when they overflow (a build
\* without overflow checks)
CalculateFieldsOn(s) ==
    /\ pc \in {"fresh", "reset"}
    /\ LET r == InitialPass(field, s, cost_fields)
       IN  /\ field' = r.f
           /\ queue' = r.q
    /\ source' = s
    /\ idx' = 1
    /\ next_neighbours' = << >>
    /\ pass' = 1
    /\ pc' = "pass"
    /\ prior' = pc
    /\ UNCHANGED cost_fields
    /\ UNCHANGED <<sectorVars, routeVars, coordVars>>

\* calculate_fields(s, cost_fields) in a build with overflow checks when an
\* addition of the first part overflows: the call panics.  A neighbour
\* examined before it was offered 65535 and so not written.
CalculateFieldsPanics(s) ==
    /\ pc \in {"fresh", "reset"}
    /\ FirstPassOverflows(field, s, cost_fields)
    /\ source' = s
    /\ pc' = "panicked"
    /\ prior' = pc
    /\ UNCHANGED <<cost_fields, field, queue, idx, next_neighbours, pass>>
    /\ UNCHANGED <<sectorVars, routeVars, coordVars>>

NextAnyField ==
    \/ \E s \in SourcesFor(cost_fields) : Reset(s)
    \/ \E s \in SourcesFor(cost_fields) : CalculateFieldsOn(s)
    \/ \E s \in SourcesFor(cost_fields) : CalculateFieldsPanics(s)
    \/ ProcessEntry
    \/ NextPass
    \/ Finish

SpecAnyField == InitAnyField /\ [][NextAnyField]_vars

(***************************************************************************)
(* The solver run to completion: calculate_fields is synchronous, so once  *)
(* called it goes on through its loop and its recursion until it returns.  *)
(***************************************************************************)
InitTerm ==
    /\ cost_fields \in RoomCostFields
    /\ FieldIdle
    /\ map_x_dimension = 0
    /\ map_z_dimension = 0
    /\ SectorsIdle
    /\ RouteIdle
    /\ CoordsIdle

SpecTerm ==
    /\ InitTerm
    /\ [][Next]_vars
    /\ WF_vars(ProcessEntry)
    /\ WF_vars(NextPass)
    /\ WF_vars(Finish)

(***************************************************************************)
(* The sector maps and the neighbour queries                               *)
(***************************************************************************)
InitSectors ==
    /\ cost_fields = DefaultCostFields
    /\ FieldIdle
    /\ map_x_dimension \in 0 .. MaxDim
    /\ map_z_dimension \in 0 .. MaxDim
    /\ SectorsIdle
    /\ RouteIdle
    /\ CoordsIdle

NewSectorCostFields ==
    /\ "SectorCostFields" \notin built
    /\ sector_cost_fields' = SectorCostFields_new(map_x_dimension, map_z_dimension)
    /\ built' = built \cup {"SectorCostFields"}
    /\ UNCHANGED <<map_x_dimension, map_z_dimension, sector_portals,
                   sector_integration_fields, sector_id, neighbour_ids,
                   neighbour_ordinals>>
    /\ UNCHANGED <<fieldVars, routeVars, coordVars>>

NewSectorPortals ==
    /\ "SectorPortals" \notin built
    /\ sector_portals' = SectorPortals_new(map_x_dimension, map_z_dimension)
    /\ built' = built \cup {"SectorPortals"}
    /\ UNCHANGED <<map_x_dimension, map_z_dimension, sector_cost_fields,
                   sector_integration_fields, sector_id, neighbour_ids,
                   neighbour_ordinals>>
    /\ UNCHANGED <<fieldVars, routeVars, coordVars>>

NewSectorIntegrationFields ==
    /\ "SectorIntegrationFields" \notin built
    /\ sector_integration_fields' =
           SectorIntegrationFields_new(map_x_dimension, map_z_dimension)
    /\ built' = built \cup {"SectorIntegrationFields"}
    /\ UNCHANGED <<map_x_dimension, map_z_dimension, sector_cost_fields,
                   sector_portals, sector_id, neighbour_ids, neighbour_ordinals>>
    /\ UNCHANGED <<fieldVars, routeVars, coordVars>>

\* the sectors of the map
SectorGrid ==
    (0 .. (map_x_dimension \div SECTOR_RESOLUTION) - 1)
        \X (0 .. (map_z_dimension \div SECTOR_RESOLUTION) - 1)

\* both neighbour queries for the sector s of the map
QueryNeighbours(s) ==
    /\ sector_id' = s
    /\ neighbour_ids' =
           get_ids_of_neighbouring_sectors(s, map_x_dimension, map_z_dimension)
    /\ neighbour_ordinals' =
           get_ordinal_and_ids_of_neighbouring_sectors(s, map_x_dimension,
                                                       map_z_dimension)
    /\ UNCHANGED <<map_x_dimension, map_z_dimension, built, sector_cost_fields,
                   sector_portals, sector_integration_fields>>
    /\ UNCHANGED <<fieldVars, routeVars, coordVars>>

NextSectors ==
    \/ NewSectorCostFields
    \/ NewSectorPortals
    \/ NewSectorIntegrationFields
    \/ \E s \in SectorGrid : QueryNeighbours(s)

SpecSectors == InitSectors /\ [][NextSectors]_vars

(***************************************************************************)
(* The coordinate lookups                                                  *)
(***************************************************************************)
InitCoords ==
    /\ cost_fields = DefaultCostFields
    /\ FieldIdle
    /\ map_x_dimension \in CoordDims
    /\ map_z_dimension \in CoordDims
    /\ SectorsIdle
    /\ RouteIdle
    /\ CoordsIdle

\* get_sector_and_field_cell_from_xyz(p, ..) for a position inside, on the
\* boundary of or outside the map (the functions are pure: a run makes one
\* lookup)
Locate(p) ==
    /\ position = NoPosition
    /\ cell_xyz = NoPosition
    /\ position' = p
    /\ located' = get_sector_and_field_cell_from_xyz(p, map_x_dimension, map_z_dimension)
    /\ round_trip' = FALSE
    /\ cell_sector' = NoSector
    /\ field_id' = NoCell
    /\ cell_xyz' = NoPosition
    /\ UNCHANGED <<fieldVars, sectorVars, routeVars>>

\* get_xyz_from_field_cell_within_sector(s, c, ..) for a sector of the map
CellXyz(s, c) ==
    /\ position = NoPosition
    /\ cell_xyz = NoPosition
    /\ cell_sector' = s
    /\ field_id' = c
    /\ cell_xyz' = get_xyz_from_field_cell_within_sector(s, c, map_x_dimension,
                                                          map_z_dimension)
    /\ position' = NoPosition
    /\ located' = << >>
    /\ round_trip' = FALSE
    /\ UNCHANGED <<fieldVars, sectorVars, routeVars>>

\* get_sector_and_field_cell_from_xyz of the xyz returned for the cell
LocateCellXyz ==
    /\ cell_xyz # NoPosition
    /\ ~round_trip
    /\ position' = cell_xyz
    /\ located' = get_sector_and_field_cell_from_xyz(cell_xyz, map_x_dimension,
                                                      map_z_dimension)
    /\ round_trip' = TRUE
    /\ UNCHANGED <<cell_sector, field_id, cell_xyz>>
    /\ UNCHANGED <<fieldVars, sectorVars, routeVars>>

NextCoords ==
    \/ \E x \in AxisPositions(map_x_dimension), z \in AxisPositions(map_z_dimension) :
          Locate(<<x, 0, z>>)
    \/ \E s \in SectorGrid, c \in Cells : CellXyz(s, c)
    \/ LocateCellXyz

SpecCoords == InitCoords /\ [][NextCoords]_vars

(***************************************************************************)
(* The example's setup: from a route to the fields of its sectors          *)
(***************************************************************************)
InitRoute ==
    /\ cost_fields = DefaultCostFields
    /\ FieldIdle
    /\ map_x_dimension = ExampleMapDimension
    /\ map_z_dimension = ExampleMapDimension
    /\ built = {"SectorCostFields"}
    /\ sector_cost_fields = ExampleSectorCostFields
    /\ sector_portals = EmptyMap
    /\ sector_integration_fields = EmptyMap
    /\ sector_id = NoSector
    /\ neighbour_ids = << >>
    /\ neighbour_ordinals = << >>
    /\ route \in RouteInputs
    /\ map = EmptyMap
    /\ sector_int_fields = EmptyMap
    /\ rpc = "route"
    /\ order = << >>
    /\ CoordsIdle

\* lines 42-48: the route reversed, then the first pair of each sector kept
CollapseRoute ==
    /\ rpc = "route"
    /\ map' = Collapse(Reverse(route), EmptyMap)
    /\ rpc' = "collapsed"
    /\ UNCHANGED <<route, sector_int_fields, order>>
    /\ UNCHANGED <<fieldVars, sectorVars, coordVars>>

\* the loop with one IntegrationField for all the sectors, made before the
\* loop and given its goal in each iteration without being cleared
ComputeSectorSharedField(s) ==
    /\ rpc = "collapsed"
    /\ s \in DOMAIN map
    /\ s \notin DOMAIN sector_int_fields
    /\ LET int_field == IF order = << >> THEN DefaultIntegrationFields
                        ELSE sector_int_fields[order[Len(order)]]
       IN  sector_int_fields' =
               Insert(sector_int_fields, s,
                      calculate_fields(ResetFieldKeepsCells(int_field, map[s]), map[s],
                                       sector_cost_fields[s]))
    /\ order' = Append(order, s)
    /\ UNCHANGED <<route, map, rpc>>
    /\ UNCHANGED <<fieldVars, sectorVars, coordVars>>

\* lines 51-56: one iteration of `for (sector_id, goals) in map.iter()`; a
\* HashMap iterates in an arbitrary order
ComputeSector(s) ==
    /\ rpc = "collapsed"
    /\ s \in DOMAIN map
    /\ s \notin DOMAIN sector_int_fields
    /\ sector_int_fields' =
           Insert(sector_int_fields, s, IntegrationFieldOf(map[s], sector_cost_fields[s]))
    /\ order' = Append(order, s)
    /\ UNCHANGED <<route, map, rpc>>
    /\ UNCHANGED <<fieldVars, sectorVars, coordVars>>

NextRoute ==
    \/ CollapseRoute
    \/ \E s \in RouteSectors : ComputeSector(s)

SpecRoute == InitRoute /\ [][NextRoute]_vars

(***************************************************************************)
(* Reference definitions the claims are stated with                        *)
(***************************************************************************)
Abs(x) == IF x < 0 THEN -x ELSE x

Manhattan(a, b) == Abs(a[1] - b[1]) + Abs(a[2] - b[2])

\* the cells sharing an edge with c
Adjacent(c) ==
    { <<c[1], c[2] - 1>>, <<c[1] + 1, c[2]>>, <<c[1], c[2] + 1>>, <<c[1] - 1, c[2]>> }
        \cap Cells

MinOf(S) == CHOOSE x \in S : \A y \in S : x <= y

\* One round of extending the cheapest known paths by one step: d[c] is the
\* least cost of a path from src to c of at most k steps through cells whose
\* cost is not 255, U16_MAX when there is none; the cost of a path is the sum
\* of the costs of its cells, src excluded.
Extend(d, src, cost) ==
    [c \in Cells |->
        IF c = src THEN 0
        ELSE IF cost[c] = IMPASSABLE THEN U16_MAX
        ELSE MinOf({d[c]} \cup { d[n] + cost[c] : n \in { m \in Adjacent(c) : d[m] # U16_MAX } })]

RECURSIVE Cheapest(_, _, _)
Cheapest(d, src, cost) ==
    LET e == Extend(d, src, cost)
    IN  IF e = d THEN d ELSE Cheapest(e, src, cost)

\* the least path cost from src to every cell (U16_MAX: no path)
MinPathCost(src, cost) ==
    Cheapest([c \in Cells |-> IF c = src THEN 0 ELSE U16_MAX], src, cost)

Calculating == pc \in {"pass", "done"}

QueuedCells ==
    { queue[i][1] : i \in 1 .. Len(queue) }
        \cup { next_neighbours[i][1] : i \in 1 .. Len(next_neighbours) }

(***************************************************************************)
(* Claims                                                                  *)
(***************************************************************************)

\* C1: after reset(source) and calculate_fields(source, cost_fields) with a
\* passable source, the source holds 0, every cell reachable through cells
\* whose cost is not 255 holds the least path cost (sum of the costs of the
\* path's cells, source excluded), every other cell holds 65535.
C1_MinimumPathCost ==
    (pc = "done" /\ cost_fields[source] # IMPASSABLE)
        => field = MinPathCost(source, cost_fields)

\* a finished run in which an expensive cell was reached, a passable cell is
\* cut off, and some cell costs more than its Manhattan distance
C1_Witness ==
    /\ pc = "done"
    /\ cost_fields[source] # IMPASSABLE
    /\ \E c \in Cells : cost_fields[c] = HighCost /\ field[c] < U16_MAX
    /\ \E c \in Cells : cost_fields[c] # IMPASSABLE /\ field[c] = U16_MAX
    /\ \E c \in Cells : field[c] < U16_MAX /\ field[c] > Manhattan(c, source)

\* C2: during and after calculate_fields on a reset field, every impassable
\* cell other than the source holds 65535 and is in no pass.
C2_ImpassableUntouched ==
    Calculating =>
        \A c \in Cells :
            (c # source /\ cost_fields[c] = IMPASSABLE)
                => (field[c] = U16_MAX /\ c \notin QueuedCells)

\* a pass is being iterated and an impassable cell borders a written cell
C2_Witness ==
    /\ pc = "pass"
    /\ queue # << >>
    /\ \E c \in Cells :
          /\ c # source
          /\ cost_fields[c] = IMPASSABLE
          /\ \E n \in Adjacent(c) : n # source /\ field[n] < U16_MAX

\* C3: after reset(s), whatever the field held before, the source holds 0
\* and every other cell 65535.
C3_ResetField ==
    pc = "reset" =>
        \A c \in Cells : field[c] = (IF c = source THEN 0 ELSE U16_MAX)

\* a reset of a field that held a computed result
C3_Witness == pc = "reset" /\ prior = "done"

\* C4: with a uniform cost k < 255, every cell ends at k times its Manhattan
\* distance to the source.
C4_UniformManhattan ==
    (pc = "done" /\ cost_fields[source] # IMPASSABLE
        /\ \A c \in Cells : cost_fields[c] = cost_fields[source])
        => \A c \in Cells : field[c] = cost_fields[source] * Manhattan(c, source)

\* the default cost field from source (4,4): 8 at (0,0), 10 at (9,9)
C4_Witness ==
    /\ pc = "done"
    /\ cost_fields = DefaultCostFields
    /\ source = <<4, 4>>
    /\ field[<<0, 0>>] = 8
    /\ field[<<9, 9>>] = 10

\* C5: with an impassable source, calculate_fields changes no cell of the
\* reset field.
C5_ImpassableSourceNoOp ==
    (Calculating /\ cost_fields[source] = IMPASSABLE)
        => /\ \A c \in Cells : field[c] = (IF c = source THEN 0 ELSE U16_MAX)
           /\ QueuedCells = {}

\* a finished run from an impassable source that has a passable neighbour
C5_Witness ==
    /\ pc = "done"
    /\ cost_fields[source] = IMPASSABLE
    /\ \E n \in Adjacent(source) : cost_fields[n] # IMPASSABLE

\* the two tests of integration_fields.rs, as the model runs them
TestsOfIntegrationFields ==
    (pc = "done" /\ source = <<4, 4>>) =>
        /\ cost_fields = DefaultCostFields
             => \A c \in Cells : field[c] = BasicFieldExpected[c[1] + 1][c[2] + 1]
        /\ cost_fields = ComplexCostFields
             => \A c \in Cells : field[c] = ComplexFieldExpected[c[1] + 1][c[2] + 1]

\* the solver stepped entry by entry ends with the field that calculate_fields
\* run in one go returns
StepsAgreeWithRun ==
    pc = "done" =>
        field = calculate_fields(ResetField(DefaultIntegrationFields, source),
                                 source, cost_fields)

ComplexFieldDone ==
    pc = "done" /\ cost_fields = ComplexCostFields /\ source = <<4, 4>>

\* C6 as stated: in the complex-field scenario the four walled cells
\* (1,1), (1,2), (2,1), (2,2) and (9,9) hold 65535, (0,0) holds 8, (5,5)
\* holds 2 and (4,5) holds 1.
C6_AsStated ==
    ComplexFieldDone =>
        /\ \A c \in { <<1, 1>>, <<1, 2>>, <<2, 1>>, <<2, 2>> } : field[c] = U16_MAX
        /\ field[<<9, 9>>] = U16_MAX
        /\ field[<<0, 0>>] = 8
        /\ field[<<5, 5>>] = 2
        /\ field[<<4, 5>>] = 1

\* C6 amended: as stated, except that (9,9) is reached and holds 10.
C6_ComplexField ==
    ComplexFieldDone =>
        /\ \A c \in { <<1, 1>>, <<1, 2>>, <<2, 1>>, <<2, 2>> } : field[c] = U16_MAX
        /\ field[<<9, 9>>] = 10
        /\ field[<<0, 0>>] = 8
        /\ field[<<5, 5>>] = 2
        /\ field[<<4, 5>>] = 1

\* the scenario has run and (9,9) was reached from its neighbour (9,8)
C6_Witness == ComplexFieldDone /\ field[<<9, 8>>] = 9 /\ field[<<9, 9>>] < U16_MAX

(***************************************************************************)
(* Claims about the route, the sector maps and the neighbour queries       *)
(***************************************************************************)
\* every retained sector has its field
RouteDone == rpc = "collapsed" /\ DOMAIN map \subseteq DOMAIN sector_int_fields

RouteSectorsOf(r) == { r[i][1] : i \in 1 .. Len(r) }

\* the cell of the last pair of sector s in the route r
LastGoal(r, s) ==
    LET last == CHOOSE i \in 1 .. Len(r) :
                    /\ r[i][1] = s
                    /\ \A j \in (i + 1) .. Len(r) : r[j][1] # s
    IN  r[last][2]

\* C7: the output map has one entry for each sector of the route and no
\* other, and the entry of a sector is the field calculated from the cell of
\* the sector's last pair in the source-to-goal route.
C7_OneFieldPerSector ==
    RouteDone =>
        /\ DOMAIN sector_int_fields = RouteSectorsOf(route)
        /\ \A s \in DOMAIN sector_int_fields :
              sector_int_fields[s] =
                  IntegrationFieldOf(LastGoal(route, s), sector_cost_fields[s])

\* the reversed route [(A,a1), (A,a2), (B,b1), (A,a3)] has been computed
C7_Witness ==
    /\ RouteDone
    /\ route = << <<<<2, 0>>, <<9, 9>>>>, <<<<1, 0>>, <<4, 4>>>>,
                  <<<<2, 0>>, <<0, 6>>>>, <<<<2, 0>>, <<7, 3>>>> >>
    /\ DOMAIN sector_int_fields = { <<2, 0>>, <<1, 0>> }
    /\ sector_int_fields[<<2, 0>>][<<7, 3>>] = 0

\* the sector ids (m, n) whose 10 x 10 square lies inside an x by z map
FittingSectors(x, z) ==
    { k \in (0 .. x) \X (0 .. z) :
        (k[1] + 1) * SECTOR_RESOLUTION <= x /\ (k[2] + 1) * SECTOR_RESOLUTION <= z }

\* C8: a constructed sector map has exactly the keys (m, n) with m < x/10
\* and n < z/10, each mapped to the default of its payload.
C8_SectorMapDense ==
    LET keys == FittingSectors(map_x_dimension, map_z_dimension)
    IN  /\ "SectorCostFields" \in built =>
              /\ DOMAIN sector_cost_fields = keys
              /\ \A k \in keys : \A c \in Cells : sector_cost_fields[k][c] = 1
        /\ "SectorPortals" \in built =>
              /\ DOMAIN sector_portals = keys
              /\ \A k \in keys : sector_portals[k] = DefaultPortals
        /\ "SectorIntegrationFields" \in built =>
              /\ DOMAIN sector_integration_fields = keys
              /\ \A k \in keys : \A c \in Cells :
                    sector_integration_fields[k][c] = U16_MAX

\* the three maps of a 30 x 20 map, of 3 x 2 sectors each
C8_Witness ==
    /\ built = {"SectorCostFields", "SectorPortals", "SectorIntegrationFields"}
    /\ map_x_dimension = 30
    /\ map_z_dimension = 20
    /\ Cardinality(DOMAIN sector_integration_fields) = 6
    /\ <<2, 1>> \in DOMAIN sector_cost_fields

NotMultiple ==
    map_x_dimension % SECTOR_RESOLUTION # 0 \/ map_z_dimension % SECTOR_RESOLUTION # 0

\* C9 as stated: with an x or z that is no multiple of 10 the construction
\* fails and yields no map.
C9_AsStated == NotMultiple => built = {}

\* C9 amended: with an x or z that is no multiple of 10 the construction
\* does not fail; it yields a map of (x div 10) * (z div 10) sectors, the
\* remainder of each dimension being left without sectors.
C9_NonMultipleTruncated ==
    NotMultiple =>
        LET count == (map_x_dimension \div SECTOR_RESOLUTION)
                        * (map_z_dimension \div SECTOR_RESOLUTION)
        IN  /\ "SectorCostFields" \in built
                  => Cardinality(DOMAIN sector_cost_fields) = count
            /\ "SectorPortals" \in built
                  => Cardinality(DOMAIN sector_portals) = count
            /\ "SectorIntegrationFields" \in built
                  => Cardinality(DOMAIN sector_integration_fields) = count
            /\ count * SECTOR_RESOLUTION * SECTOR_RESOLUTION
                  <= map_x_dimension * map_z_dimension

\* a 25 x 19 map constructed: 2 x 1 sectors
C9_Witness ==
    /\ map_x_dimension = 25
    /\ map_z_dimension = 19
    /\ "SectorCostFields" \in built
    /\ DOMAIN sector_cost_fields = { <<0, 0>>, <<1, 0>> }

\* North, East, South, West of a sector, with the direction
OrdinalCandidates(s) ==
    << <<"North", <<s[1], s[2] - 1>>>>, <<"East", <<s[1] + 1, s[2]>>>>,
       <<"South", <<s[1], s[2] + 1>>>>, <<"West", <<s[1] - 1, s[2]>>>> >>

InSectorGrid(s) ==
    /\ 0 <= s[1] /\ s[1] < map_x_dimension \div SECTOR_RESOLUTION
    /\ 0 <= s[2] /\ s[2] < map_z_dimension \div SECTOR_RESOLUTION

\* C10: for a sector of the map both queries return the North, East, South
\* and West sectors that lie in the sector grid, in that order, the second
\* query with the direction of each.
C10_SectorNeighbours ==
    sector_id # NoSector =>
        LET expected == SelectSeq(OrdinalCandidates(sector_id),
                                  LAMBDA e : InSectorGrid(e[2]))
        IN  /\ neighbour_ordinals = expected
            /\ neighbour_ids = [i \in 1 .. Len(expected) |-> expected[i][2]]

\* the corner sector (0,0) of a map that is wider than deep
C10_Witness ==
    /\ sector_id = <<0, 0>>
    /\ map_x_dimension > map_z_dimension
    /\ neighbour_ordinals = << <<"East", <<1, 0>>>>, <<"South", <<0, 1>>>> >>
    /\ neighbour_ids = << <<1, 0>>, <<0, 1>> >>

\* the tests of sectors.rs on the two queries (a 200 x 200 map)
TestsOfSectorNeighbours ==
    /\ get_ids_of_neighbouring_sectors(<<4, 0>>, 200, 200)
           = << <<5, 0>>, <<4, 1>>, <<3, 0>> >>
    /\ get_ids_of_neighbouring_sectors(<<19, 3>>, 200, 200)
           = << <<19, 2>>, <<19, 4>>, <<18, 3>> >>
    /\ get_ids_of_neighbouring_sectors(<<5, 19>>, 200, 200)
           = << <<5, 18>>, <<6, 19>>, <<4, 19>> >>
    /\ get_ids_of_neighbouring_sectors(<<0, 5>>, 200, 200)
           = << <<0, 4>>, <<1, 5>>, <<0, 6>> >>
    /\ get_ids_of_neighbouring_sectors(<<5, 7>>, 200, 200)
           = << <<5, 6>>, <<6, 7>>, <<5, 8>>, <<4, 7>> >>
    /\ get_ordinal_and_ids_of_neighbouring_sectors(<<4, 0>>, 200, 200)
           = << <<"East", <<5, 0>>>>, <<"South", <<4, 1>>>>, <<"West", <<3, 0>>>> >>
    /\ get_ordinal_and_ids_of_neighbouring_sectors(<<19, 3>>, 200, 200)
           = << <<"North", <<19, 2>>>>, <<"South", <<19, 4>>>>, <<"West", <<18, 3>>>> >>
    /\ get_ordinal_and_ids_of_neighbouring_sectors(<<5, 19>>, 200, 200)
           = << <<"North", <<5, 18>>>>, <<"East", <<6, 19>>>>, <<"West", <<4, 19>>>> >>
    /\ get_ordinal_and_ids_of_neighbouring_sectors(<<0, 5>>, 200, 200)
           = << <<"North", <<0, 4>>>>, <<"East", <<1, 5>>>>, <<"South", <<0, 6>>>> >>
    /\ get_ordinal_and_ids_of_neighbouring_sectors(<<5, 7>>, 200, 200)
           = << <<"North", <<5, 6>>>>, <<"East", <<6, 7>>>>,
                <<"South", <<5, 8>>>>, <<"West", <<4, 7>>>> >>

(***************************************************************************)
(* Claims about the coordinate lookups                                     *)
(***************************************************************************)
MultiplesOfTen ==
    map_x_dimension % SECTOR_RESOLUTION = 0 /\ map_z_dimension % SECTOR_RESOLUTION = 0

\* the position lies in the map: -X/2 <= x < X/2 and -Z/2 <= z < Z/2
InsideMap(p) ==
    /\ -(HalvesPerUnit * map_x_dimension) <= 2 * p[1]
    /\ 2 * p[1] < HalvesPerUnit * map_x_dimension
    /\ -(HalvesPerUnit * map_z_dimension) <= 2 * p[3]
    /\ 2 * p[3] < HalvesPerUnit * map_z_dimension

\* v, in halves, lies in the unit interval that starts `cell` units after
\* the sector's first unit on an axis of a map of dimension d
InUnitInterval(v, sector, cell, d) ==
    LET start == 2 * SECTOR_RESOLUTION * sector - d + 2 * cell
    IN  HalvesPerUnit * start <= 2 * v /\ 2 * v < HalvesPerUnit * (start + 2)

C12_LocateAlwaysInRange ==
    (position # NoPosition /\ MultiplesOfTen) =>
        /\ located[1] \in SectorGrid
        /\ located[2] \in Cells

\* a position past the positive x boundary and before the negative z
\* boundary: the last column of sectors, the first row
C12_Witness ==
    /\ MultiplesOfTen
    /\ position # NoPosition
    /\ 2 * position[1] > HalvesPerUnit * map_x_dimension
    /\ 2 * position[3] < -(HalvesPerUnit * map_z_dimension)
    /\ located[1] = <<(map_x_dimension \div SECTOR_RESOLUTION) - 1, 0>>
    /\ located[2][1] = FIELD_RESOLUTION - 1

\* C13 as stated: looking up the xyz returned for a field cell of a sector
\* gives that sector and that field cell back.
C13_RoundTrip ==
    (round_trip /\ MultiplesOfTen) => located = <<cell_sector, field_id>>

TestsOfCoordinates ==
    /\ get_sector_id_from_xyz(<<AsF32(-5), 0, AsF32(-5)>>, 20, 20) = <<0, 0>>
    /\ get_sector_id_from_xyz(<<AsF32(5), 0, AsF32(-5)>>, 20, 20) = <<1, 0>>
    /\ get_sector_id_from_xyz(<<AsF32(5), 0, AsF32(5)>>, 20, 20) = <<1, 1>>
    /\ get_sector_id_from_xyz(<<AsF32(-5), 0, AsF32(5)>>, 20, 20) = <<0, 1>>
    /\ get_xyz_at_sector_top_left_from_sector_id(<<0, 0>>, 30, 30)
           = <<AsF32(-15), 0, AsF32(-15)>>
    /\ get_xyz_at_sector_top_left_from_sector_id(<<1, 1>>, 30, 30)
           = <<AsF32(-5), 0, AsF32(-5)>>
    /\ get_xyz_sector_centre_from_sector_id(<<0, 0>>, 30, 30)
           = <<AsF32(-10), 0, AsF32(-10)>>
    /\ get_xyz_sector_centre_from_sector_id(<<1, 1>>, 30, 30) = <<0, 0, 0>>
    /\ 2 * get_xyz_from_field_cell_within_sector(<<0, 0>>, <<0, 0>>, 30, 30)[1]
           = AsF32(-29)
    /\ 2 * get_xyz_from_field_cell_within_sector(<<1, 1>>, <<4, 4>>, 30, 30)[3]
           = AsF32(-5)
    /\ get_xyz_from_field_cell_within_sector(<<2, 3>>, <<3, 6>>, 100, 100)[1]
           = AsF32(-28)
    /\ 2 * get_xyz_from_field_cell_within_sector(<<2, 3>>, <<3, 6>>, 100, 100)[3]
           = AsF32(-33)
    /\ get_xyz_from_field_cell_within_sector(<<4, 4>>, <<9, 9>>, 100, 100)
           = <<AsF32(-5), 0, AsF32(-5)>>
    /\ get_xyz_from_field_cell_within_sector(<<2, 2>>, <<5, 5>>, 100, 100)
           = <<AsF32(-27), 0, AsF32(-27)>>

(***************************************************************************)
(* Claims about the passes of the solver                                   *)
(***************************************************************************)
\* some cell that can be reached holds more than its least path cost
Dearer(f, least) == \E c \in Cells : least[c] # U16_MAX /\ f[c] > least[c]

Suboptimal(f, src, cost) == Dearer(f, MinPathCost(src, cost))

\* for each passable source tried on the cost field, the field computed on
\* the reset field f and the least path costs
ResultsOn(f, cost) ==
    { <<calculate_fields(ResetField(f, s), s, cost), MinPathCost(s, cost)>> :
        s \in { t \in SourcesFor(cost) : cost[t] # IMPASSABLE } }

\* C15 as stated: there are a non-uniform cost field with cells in 1..255
\* and a passable source for which reset(source) and
\* calculate_fields(source, cost_fields) leave some reachable cell with more
\* than its least path cost.  (The statement is about all the runs of the
\* solver at once; it is evaluated as soon as the solver is in use.)
C15_SomeRunSuboptimal ==
    pc # "fresh" =>
        \E cost \in CostFieldInputs \ UniformCostFields :
            \E r \in ResultsOn(DefaultIntegrationFields, cost) : Dearer(r[1], r[2])

\* C15 amended: with non-uniform costs too, after reset(source) and
\* calculate_fields(source, cost_fields) from a passable source no reachable
\* cell holds more than its least path cost; a cell first written over a
\* dearer route is written again when a cheaper detour reaches it.
C15_NeverSuboptimal ==
    (pc = "done" /\ cost_fields[source] # IMPASSABLE)
        => ~Suboptimal(field, source, cost_fields)

\* a finished run in which the cheapest route to some cell is a detour: it
\* enters the cell from none of the neighbours that are nearer the source,
\* each of which is itself reached
C15_Witness ==
    /\ pc = "done"
    /\ cost_fields[source] # IMPASSABLE
    /\ \E c \in Cells :
          /\ field[c] < U16_MAX
          /\ \E n \in Adjacent(c) : Manhattan(n, source) < Manhattan(c, source)
          /\ \A n \in Adjacent(c) :
                Manhattan(n, source) < Manhattan(c, source)
                    => (field[n] < U16_MAX /\ field[n] + cost_fields[c] > field[c])

\* C16: calculate_fields on a reset field returns: every run that is in its
\* passes reaches the pass that pushes nothing and ends, equal costs and
\* cells that cost nothing included.
C16_Terminates == (pc = "pass") ~> (pc = "done")

\* a finished run from (4,4) in which the two cells that cost nothing were
\* both reached at 0 and a cell was offered the value it already held
C16_Witness ==
    /\ pc = "done"
    /\ source = <<4, 4>>
    /\ cost_fields[<<4, 5>>] = 0
    /\ cost_fields[<<5, 5>>] = 0
    /\ field[<<4, 5>>] = 0
    /\ field[<<5, 5>>] = 0
    /\ \E c \in RoomCells :
          \E m, n \in Adjacent(c) :
              /\ m # n
              /\ field[c] # 0
              /\ field[m] + cost_fields[c] = field[c]
              /\ field[n] + cost_fields[c] = field[c]

\* the recursion stays below the depth at which its count stops
PassesCounted == pass < MaxPass

\* the entries a step pushed onto next_neighbours
Pushed == SubSeq(next_neighbours', Len(next_neighbours) + 1, Len(next_neighbours'))

\* the neighbours of the cell of an entry that the entry offers exactly the
\* value they hold
TiedNeighbours(entry) ==
    { n \in Adjacent(entry[1]) :
        cost_fields[n] # IMPASSABLE /\ cost_fields[n] + entry[2] = field[n] }

\* a step of the loop over the pass: the entry at idx is examined
EntryStep ==
    /\ idx <= Len(queue)
    /\ queue' = queue
    /\ idx' = idx + 1
    /\ pass' = pass
    /\ \A c \in Cells : field'[c] <= field[c]
    /\ \A j \in 1 .. Len(Pushed) :
          /\ Pushed[j][1] \in Adjacent(queue[idx][1])
          /\ Pushed[j][2] < field[Pushed[j][1]]
          /\ Pushed[j][2] = field'[Pushed[j][1]]
    /\ \A c \in Cells :
          field'[c] # field[c] => \E j \in 1 .. Len(Pushed) : Pushed[j][1] = c
    /\ \A n \in TiedNeighbours(queue[idx]) :
          /\ field'[n] = field[n]
          /\ \A j \in 1 .. Len(Pushed) : Pushed[j][1] # n

\* the step from a pass to the next: every entry of the pass was examined
PassStep ==
    /\ idx > Len(queue)
    /\ queue' = next_neighbours
    /\ next_neighbours' = << >>
    /\ idx' = 1
    /\ field' = field

\* C17: during calculate_fields every write stores less than the cell held,
\* so no cell ever rises; a candidate equal to the cell's value neither
\* writes the cell nor queues it; and a pass is examined to its last entry
\* before the next pass, made of the entries it pushed, is started.
C17_StrictWritesInPassOrder ==
    [][ /\ (pc = "reset" /\ pc' = "pass") => \A c \in Cells : field'[c] <= field[c]
        /\ (pc = "pass" /\ pc' = "pass") => (EntryStep \/ PassStep)
        /\ (pc = "pass" /\ pc' = "done") => (idx > Len(queue) /\ field' = field) ]_vars

\* two entries of the pass examined so far offered a cell the same value,
\* which it holds, and the cell was pushed once: the first writer won
C17_Witness ==
    /\ pc = "pass"
    /\ pass >= 2
    /\ \E i, j \in 1 .. (idx - 1) :
          /\ i < j
          /\ \E n \in TiedNeighbours(queue[i]) \cap TiedNeighbours(queue[j]) :
                Cardinality({ k \in 1 .. Len(next_neighbours) :
                                 next_neighbours[k][1] = n }) = 1

\* the first part of calculate_fields has just built the queue
FirstPassDone == pc = "pass" /\ pass = 1 /\ idx = 1

\* C18 as stated: whatever the field held when calculate_fields was called,
\* the call does not overflow and every neighbour of the source written by
\* the first part holds, and is queued with, its own cost plus 0.
C18_SourceCountsZero ==
    /\ pc # "panicked"
    /\ FirstPassDone =>
          \A i \in 1 .. Len(queue) :
              /\ queue[i][2] = cost_fields[queue[i][1]]
              /\ field[queue[i][1]] = cost_fields[queue[i][1]]

\* the sectors of the reversed route, each at its first occurrence
RECURSIVE ReversedRouteOrder(_, _)
ReversedRouteOrder(path, seen) ==
    IF path = << >> THEN << >>
    ELSE IF Head(path)[1] \in seen THEN ReversedRouteOrder(Tail(path), seen)
    ELSE <<Head(path)[1]>> \o ReversedRouteOrder(Tail(path), seen \cup {Head(path)[1]})

\* C19: whatever the order in which the retained sectors are processed, the
\* entry of a sector is the field of that sector's goal cell and cost field
\* alone, so the finished output map is the same for every order.
C19_OrderIndependent ==
    /\ rpc = "collapsed" =>
          \A s \in DOMAIN sector_int_fields :
              sector_int_fields[s] = IntegrationFieldOf(map[s], sector_cost_fields[s])
    /\ RouteDone =>
          /\ DOMAIN sector_int_fields = DOMAIN map
          /\ { order[i] : i \in 1 .. Len(order) } = DOMAIN map

\* a route of three sectors finished in an order that is neither the
\* reversed-route order nor its reverse
C19_Witness ==
    /\ RouteDone
    /\ Len(order) = 3
    /\ order # ReversedRouteOrder(Reverse(route), {})
    /\ order # Reverse(ReversedRouteOrder(Reverse(route), {}))

\* the entries whose neighbours are still to be examined
EntriesToExamine ==
    { queue[i] : i \in idx .. Len(queue) }
        \cup { next_neighbours[i] : i \in 1 .. Len(next_neighbours) }

\* the candidate for every passable neighbour of the cell, carried value v,
\* is below 65535 and is what the 16-bit addition gives
CandidatesExact(cell, v) ==
    \A n \in Adjacent(cell) :
        cost_fields[n] # IMPASSABLE =>
            /\ cost_fields[n] + v < U16_MAX
            /\ AddU16(cost_fields[n], v) = cost_fields[n] + v

\* C20: on a field that was reset(source), with costs in 1..255, no addition
\* of calculate_fields overflows: every candidate, of the first part and of
\* the passes, is below 65535, and every value written is at most 254 x 99.
C20_NoOverflow ==
    /\ pc = "reset" => CandidatesExact(source, field[source])
    /\ Calculating =>
          /\ \A e \in EntriesToExamine : CandidatesExact(e[1], e[2])
          /\ \A e \in EntriesToExamine :
                e[2] <= (IMPASSABLE - 1) * (FIELD_RESOLUTION * FIELD_RESOLUTION - 1)
          /\ \A c \in Cells :
                \/ field[c] = U16_MAX
                \/ field[c] <= (IMPASSABLE - 1) * (FIELD_RESOLUTION * FIELD_RESOLUTION - 1)

\* a finished run in which every cell costs 254 and the cell farthest from
\* the source, 18 steps away, holds 254 x 18 = 4572
C20_Witness ==
    /\ pc = "done"
    /\ \A c \in Cells : cost_fields[c] = IMPASSABLE - 1
    /\ \E c \in Cells :
          /\ Manhattan(c, source) = 2 * (FIELD_RESOLUTION - 1)
          /\ field[c] = (IMPASSABLE - 1) * 2 * (FIELD_RESOLUTION - 1)

=============================================================================
